---- MODULE Spec2Model ----
(***************************************************************************)
(* Model of the device-side charge controller and MQTT listener of        *)
(* raspberry_pi/charge_controller.py.                                      *)
(*                                                                         *)
(* Threads: the delivery thread (paho's message callback, _on_message ->   *)
(* start_session), one thread per threading.Timer (Timer.run ->            *)
(* _stop_session) and the main thread (cleanup).  Every step that runs     *)
(* under ChargeController._lock is taken while `lock` names the thread;    *)
(* the Timer's own wait / finished test and GPIO.cleanup() run outside it. *)
(***************************************************************************)
EXTENDS Integers, Sequences, FiniteSets, TLC

\* ---------------------------------------------------------------- bounds
MaxTimers == 3          \* threading.Timer objects created in one run
MaxCleanups == 2        \* calls of cleanup() in one run
MaxConnects == 2        \* calls of self._client.connect in one run
MaxEvents == 2          \* webhook events handled in one run

\* ------------------------------------------------------- program constants
LOW == 0
HIGH == 1
SecondsPerMinute == 60
MinTimerSeconds == 1

\* paho.mqtt.client result codes
MQTT_ERR_SUCCESS == 0
MQTT_ERR_NO_CONN == 4

\* threading.TIMEOUT_MAX is 9223372036 seconds, the longest wait a Timer's
\* finished.wait(interval) accepts; this is the last whole minute below it.
TimeoutMaxMinutes == 153722867

\* One Tick of the model's clock is a quarter of an hour.
TickSeconds == 15 * SecondsPerMinute

\* ------------------------------------------------------------- thread ids
NoHolder == 0
DeliveryThread == 0 - 1
MainThread == 0 - 2
TimerIds == 1..MaxTimers
NoTimer == 0

Max(a, b) == IF a >= b THEN a ELSE b

\* ------------------------------------------------------------ JSON values
\* A decoded JSON value: t is its Python type after json.loads, n its number
\* (a float is kept as twice its value, so 3 is 1.5), s its characters.
JMissing == [t |-> "missing", n |-> 0, s |-> <<>>]
JNull == [t |-> "null", n |-> 0, s |-> <<>>]
JBool(b) == [t |-> "bool", n |-> IF b THEN 1 ELSE 0, s |-> <<>>]
JInt(i) == [t |-> "int", n |-> i, s |-> <<>>]
JHalves(h) == [t |-> "float", n |-> h, s |-> <<>>]
JStr(cs) == [t |-> "str", n |-> 0, s |-> cs]
JList == [t |-> "list", n |-> 0, s |-> <<>>]

Digits == <<"0", "1", "2", "3", "4", "5", "6", "7", "8", "9">>
IsDigit(c) == \E i \in 1..10 : Digits[i] = c
DigitVal(c) == (CHOOSE i \in 1..10 : Digits[i] = c) - 1

RECURSIVE StripLeft(_)
StripLeft(cs) == IF cs # <<>> /\ Head(cs) = " " THEN StripLeft(Tail(cs)) ELSE cs

RECURSIVE StripRight(_)
StripRight(cs) ==
    IF cs # <<>> /\ cs[Len(cs)] = " " THEN StripRight(SubSeq(cs, 1, Len(cs) - 1)) ELSE cs

RECURSIVE DigitsValue(_, _)
DigitsValue(cs, acc) ==
    IF cs = <<>> THEN acc ELSE DigitsValue(Tail(cs), acc * 10 + DigitVal(Head(cs)))

\* int(str): surrounding blanks, one optional sign, then decimal digits only.
PyIntOfStr(cs) ==
    LET body == StripRight(StripLeft(cs))
        signed == body # <<>> /\ Head(body) \in {"-", "+"}
        ds == IF signed THEN Tail(body) ELSE body
    IN  IF ds = <<>> \/ \E i \in 1..Len(ds) : ~IsDigit(ds[i])
        THEN [exc |-> "ValueError", v |-> 0]
        ELSE [exc |-> "none",
              v |-> IF signed /\ Head(body) = "-" THEN 0 - DigitsValue(ds, 0)
                    ELSE DigitsValue(ds, 0)]

\* int(x) for a decoded JSON value.
PyInt(x) ==
    CASE x.t \in {"int", "bool"} -> [exc |-> "none", v |-> x.n]
      [] x.t = "float" ->
            [exc |-> "none", v |-> IF x.n >= 0 THEN x.n \div 2 ELSE 0 - ((0 - x.n) \div 2)]
      [] x.t = "str" -> PyIntOfStr(x.s)
      [] OTHER -> [exc |-> "TypeError", v |-> 0]

RECURSIVE NatToStr(_)
NatToStr(i) == IF i < 10 THEN <<Digits[i + 1]>> ELSE NatToStr(i \div 10) \o <<Digits[(i % 10) + 1]>>

\* str(x) for a decoded JSON value.
PyStr(x) ==
    CASE x.t = "str" -> x.s
      [] x.t = "null" -> <<"N", "o", "n", "e">>
      [] x.t = "bool" -> IF x.n = 1 THEN <<"T", "r", "u", "e">> ELSE <<"F", "a", "l", "s", "e">>
      [] x.t = "int" -> IF x.n < 0 THEN <<"-">> \o NatToStr(0 - x.n) ELSE NatToStr(x.n)
      [] x.t = "float" ->
            (IF x.n < 0 THEN <<"-">> ELSE <<>>)
                \o NatToStr((IF x.n < 0 THEN 0 - x.n ELSE x.n) \div 2)
                \o <<".">> \o (IF x.n % 2 = 0 THEN <<"0">> ELSE <<"5">>)
      [] OTHER -> <<"[", "]">>

\* dict.get(key, default): the value, or the default when the key is absent.
Get(v, default) == IF v.t = "missing" THEN default ELSE v

StartCharge == <<"s", "t", "a", "r", "t", "_", "c", "h", "a", "r", "g", "e">>
Unknown == <<"u", "n", "k", "n", "o", "w", "n">>

\* --------------------------------------------------------------- payloads
\* The bytes of one MQTT message: not UTF-8, UTF-8 that is not JSON, a JSON
\* document that is no object (doc), or a JSON object with these members.
NotUtf8 == [kind |-> "not_utf8", doc |-> JMissing, command |-> JMissing, device_id |-> JMissing,
            duration_minutes |-> JMissing, payment_reference |-> JMissing]
NotJson == [kind |-> "not_json", doc |-> JMissing, command |-> JMissing, device_id |-> JMissing,
            duration_minutes |-> JMissing, payment_reference |-> JMissing]
NonObject(v) == [kind |-> "json", doc |-> v, command |-> JMissing, device_id |-> JMissing,
                 duration_minutes |-> JMissing, payment_reference |-> JMissing]
Object(c, d, r) == [kind |-> "object", doc |-> JMissing, command |-> c, device_id |-> JMissing,
                    duration_minutes |-> d, payment_reference |-> r]

NoPayload == [kind |-> "none", doc |-> JMissing, command |-> JMissing, device_id |-> JMissing,
              duration_minutes |-> JMissing, payment_reference |-> JMissing]

RefA == <<"p", "l", "_", "A">>
RefB == <<"p", "l", "_", "B">>
Ref123 == <<"p", "l", "_", "1", "2", "3">>
Bay1 == <<"b", "a", "y", "-", "1">>

\* messaging.ChargeCommand: a str, an int and a str.
ChargeCommand(device_id, duration_minutes, payment_reference) ==
    [device_id |-> device_id, duration_minutes |-> duration_minutes,
     payment_reference |-> payment_reference]

NoCommand == ChargeCommand(<<>>, 0, <<>>)

\* The commands the backend publishes.
Commands == { ChargeCommand(Bay1, 1, RefA), ChargeCommand(Bay1, 30, Ref123) }

\* ChargeCommand.to_payload and json.dumps: the members of the JSON object
\* that publish_charge puts on the wire.
to_payload(c) ==
    [kind |-> "object", doc |-> JMissing, command |-> JStr(StartCharge),
     device_id |-> JStr(c.device_id), duration_minutes |-> JInt(c.duration_minutes),
     payment_reference |-> JStr(c.payment_reference)]

Durations ==
    { JMissing, JNull, JInt(0 - 1), JInt(0), JInt(TimeoutMaxMinutes + 1),
      JHalves(1), JHalves(3),
      JStr(<<"a", "b", "c">>), JStr(<<" ", "1">>) }

References == { JMissing, JStr(RefB) }

Payloads ==
    {NotUtf8, NotJson, NonObject(JList)}
    \cup {Object(c, JInt(1), JStr(RefA)) : c \in {JMissing, JStr(<<"s", "t", "o", "p">>)}}
    \cup {Object(JStr(StartCharge), d, JStr(RefA)) : d \in Durations}
    \cup {Object(JStr(StartCharge), JInt(1), r) : r \in References}
    \cup {to_payload(c) : c \in Commands}

DurationRejected_negative_only(v) == v < 0

\* _parse_payload's test `if duration <= 0`.
DurationRejected(v) == v <= 0

\* MQTTChargeListener._parse_payload: the exception it leaves with ("none"
\* when it returns) and the dict it returns.
_parse_payload(payload) ==
    LET fail(e) == [exc |-> e, duration |-> 0, reference |-> <<>>]
        duration == PyInt(Get(payload.duration_minutes, JInt(0)))
        reference == PyStr(Get(payload.payment_reference, JStr(Unknown)))
    IN  CASE payload.kind = "not_utf8" -> fail("UnicodeDecodeError")
          [] payload.kind = "not_json" -> fail("ValueError")
          [] payload.kind = "json" -> fail("AttributeError")
          [] OTHER ->
                IF Get(payload.command, JNull) # JStr(StartCharge) THEN fail("ValueError")
                ELSE IF duration.exc # "none" THEN fail(duration.exc)
                ELSE IF DurationRejected(duration.v) THEN fail("ValueError")
                ELSE [exc |-> "none", duration |-> duration.v, reference |-> reference]

\* `except ValueError` catches ValueError and its subclasses.
IsValueError(e) == e \in {"ValueError", "UnicodeDecodeError"}

\* ------------------------------------------------------------------ state
VARIABLES
    allow_overlap,      \* HardwareConfig.allow_overlap
    active_high,        \* HardwareConfig.active_high
    lock,               \* ChargeController._lock: the thread that holds it
    active_session,     \* ChargeController._active_session: a timer or NoTimer
    active_reference,   \* ChargeController._active_reference: <<>> is None, <<r>> is r
    pin,                \* the level last written to the relay pin
    output_calls,       \* number of GPIO.output calls so far, modulo 2
    released,           \* GPIO.cleanup() has been called
    timers,             \* the threading.Timer objects and their threads
    created,            \* number of Timer objects created
    pc_d,               \* delivery thread: where it is in _on_message / start_session
    msg,                \* delivery thread: the payload _on_message was called with
    data,               \* delivery thread: the dict _parse_payload returned
    escaped,            \* the exception that left _on_message, "none" if none did
    pc_m,               \* main thread: where it is in cleanup()
    cleanups,           \* number of cleanup() calls that returned
    run,                \* main thread: where it is in main() / run_forever
    client_state,       \* ChargePublisher._client: the state of its connection
    loop_thread,        \* ChargePublisher._client: its network loop thread runs
    connect_calls,      \* calls of self._client.connect so far
    loop_starts,        \* network loop threads started so far
    pc_b,               \* backend: where the caller of the Publisher is
    command,            \* backend: the ChargeCommand of the webhook event in hand
    publish_calls,      \* calls of self._client.publish made for that command
    rc,                 \* result.rc of that publish
    acked,              \* the broker has acknowledged that command's message
    events              \* webhook events handled so far

vars == <<allow_overlap, active_high, lock, active_session, active_reference, pin,
          output_calls, released, timers, created, pc_d, msg, data, escaped, pc_m,
          cleanups, run, client_state, loop_thread, connect_calls, loop_starts, pc_b,
          command, publish_calls, rc, acked, events>>

backend == <<client_state, loop_thread, connect_calls, loop_starts, pc_b, command,
             publish_calls, rc, acked, events>>

config == <<allow_overlap, active_high>>
session == <<active_session, active_reference>>
gpio == <<pin, output_calls, released>>
delivery == <<pc_d, msg, data, escaped>>
main == <<pc_m, cleanups>>

_active_state == IF active_high THEN HIGH ELSE LOW
_inactive_state == IF active_high THEN LOW ELSE HIGH

Energized == pin = _active_state

\* An interval of more than threading.TIMEOUT_MAX seconds.
TooLong == 0 - 1

UnusedTimer == [phase |-> "unused", finished |-> FALSE, remaining |-> 0, interval |-> 0]

\* threading.Timer(interval, function) followed by start(): the thread waits.
NewTimer(interval) ==
    [phase |-> "waiting", finished |-> FALSE, remaining |-> interval, interval |-> interval]

\* A Timer whose thread has ended, after the call ("completed") or without it
\* ("cancelled"); finished is set either way, the interval is of no use any more.
Ended(how) == [phase |-> how, finished |-> TRUE, remaining |-> 0, interval |-> 0]

\* Timer.cancel(): sets the finished event, whatever the thread is doing.  A
\* thread still in finished.wait(interval) wakes up, finds finished set and
\* ends without a call; a thread past that test goes on to its call.
Cancel(ts, t) ==
    IF ts[t].phase = "waiting" THEN [ts EXCEPT ![t] = Ended("cancelled")]
    ELSE [ts EXCEPT ![t].finished = TRUE]

Output_active_level(level) ==
    /\ pin' = IF active_high THEN HIGH ELSE LOW
    /\ output_calls' = (output_calls + 1) % 2

\* GPIO.output(relay_pin, level)
Output(level) ==
    /\ pin' = level
    /\ output_calls' = (output_calls + 1) % 2

NoData == [duration |-> 0, reference |-> <<>>]

\* MQTTChargeListener.__init__ has constructed the Controller.
Constructed ==
    /\ allow_overlap \in BOOLEAN
    /\ active_high \in BOOLEAN
    /\ lock = NoHolder
    /\ active_session = NoTimer
    /\ active_reference = <<>>
    /\ pin = _inactive_state
    /\ output_calls = 0
    /\ released = FALSE
    /\ timers = [t \in TimerIds |-> UnusedTimer]
    /\ created = 0
    /\ pc_d = "idle"
    /\ msg = NoPayload
    /\ data = NoData
    /\ escaped = "none"
    /\ pc_m = "idle"
    /\ cleanups = 0

\* ChargePublisher.__init__ has made the client; nothing is connected.
Unconnected ==
    /\ client_state = "new"
    /\ loop_thread = FALSE
    /\ connect_calls = 0
    /\ loop_starts = 0
    /\ pc_b = "idle"
    /\ command = NoCommand
    /\ publish_calls = 0
    /\ rc = MQTT_ERR_SUCCESS
    /\ acked = FALSE
    /\ events = 0

\* The Controller with its callers at work: the Listener is in its loop.
Init == Constructed /\ Unconnected /\ run = "loop"

\* ------------------------------------------------------- delivery thread
\* The bus hands one message to the client, which calls _on_message.
Deliver(p) ==
    /\ pc_d = "idle"
    /\ created < MaxTimers
    /\ pc_d' = "on_message"
    /\ msg' = p
    /\ UNCHANGED <<config, lock, session, gpio, timers, created, data, escaped, main, backend, run>>

Forwards_without_return(exc) == exc \in {"none", "ValueError"}

\* _on_message reaches its call of start_session: _parse_payload returned (the
\* handler of ValueError ends in `return`).
Forwards(exc) == exc = "none"

\* _on_message, the call of _parse_payload: on a ValueError the message is
\* logged as malformed, any other exception leaves the callback, and a parsed
\* message goes on to start_session.
OnMessage ==
    /\ pc_d = "on_message"
    /\ LET parsed == _parse_payload(msg)
       IN  IF Forwards(parsed.exc)
           THEN /\ pc_d' = "start_session"
                /\ data' = [duration |-> parsed.duration, reference |-> parsed.reference]
                /\ UNCHANGED escaped
           ELSE IF IsValueError(parsed.exc)
           THEN /\ pc_d' = "dropped"
                /\ UNCHANGED <<data, escaped>>
           ELSE /\ pc_d' = "crashed"
                /\ escaped' = parsed.exc
                /\ UNCHANGED data
    /\ UNCHANGED <<config, lock, session, gpio, timers, created, msg, main, backend, run>>

\* _on_message, `return` after logger.error: the message is dropped.
OnMessageReturn ==
    /\ pc_d = "dropped"
    /\ pc_d' = "idle"
    /\ msg' = NoPayload
    /\ UNCHANGED <<config, lock, session, gpio, timers, created, data, escaped, main, backend, run>>

\* start_session: `with self._lock`
StartAcquire ==
    /\ pc_d = "start_session"
    /\ lock = NoHolder
    /\ lock' = DeliveryThread
    /\ pc_d' = "start_locked"
    /\ UNCHANGED <<config, session, gpio, timers, created, msg, data, escaped, main, backend, run>>

Rejects_overlap_inverted(sess, overlap) == sess # NoTimer /\ overlap

\* The overlap test of start_session.
Rejects(sess, overlap) == sess # NoTimer /\ ~overlap

\* _cancel_locked's test `if self._active_session`.
CancelNeeded(sess) == sess # NoTimer

\* _cancel_locked: the timers after it.  cancel() sets finished; a thread still
\* in its wait wakes up, finds finished set and ends without a call.
_cancel_locked(ts, sess) == IF CancelNeeded(sess) THEN Cancel(ts, sess) ELSE ts

\* start_session under the lock, up to the recording of the reference: the
\* rejection with its warning, or _cancel_locked, _switch_on and the new
\* reference.
StartCheck ==
    /\ pc_d = "start_locked"
    /\ lock = DeliveryThread
    /\ IF Rejects(active_session, allow_overlap)
       THEN /\ pc_d' = "rejected"
            /\ UNCHANGED <<session, gpio, timers>>
       ELSE /\ timers' = _cancel_locked(timers, active_session)
            /\ pin' = _active_state
            /\ output_calls' = IF CancelNeeded(active_session)
                               THEN output_calls ELSE (output_calls + 1) % 2
            /\ active_session' = NoTimer
            /\ active_reference' = <<data.reference>>
            /\ pc_d' = "start_arm"
            /\ UNCHANGED released
    /\ UNCHANGED <<config, lock, created, msg, data, escaped, main, backend, run>>

StartReturn_keeps_lock ==
    /\ pc_d = "rejected"
    /\ lock = DeliveryThread
    /\ pc_d' = "idle"
    /\ msg' = NoPayload
    /\ data' = NoData
    /\ UNCHANGED <<config, lock, session, gpio, timers, created, escaped, main, backend, run>>

\* start_session, `return` of the rejection: the lock is released.
StartReturn ==
    /\ pc_d = "rejected"
    /\ lock = DeliveryThread
    /\ lock' = NoHolder
    /\ pc_d' = "idle"
    /\ msg' = NoPayload
    /\ data' = NoData
    /\ UNCHANGED <<config, session, gpio, timers, created, escaped, main, backend, run>>

duration_seconds_unscaled(duration_minutes) ==
    IF duration_minutes > TimeoutMaxMinutes THEN 0 - 1
    ELSE IF duration_minutes >= 1 THEN duration_minutes ELSE 1

\* The timer's interval in seconds; an interval above threading.TIMEOUT_MAX,
\* which the model's integers cannot hold, is kept as TooLong.
duration_seconds(duration_minutes) ==
    IF duration_minutes > TimeoutMaxMinutes THEN TooLong
    ELSE Max(duration_minutes * SecondsPerMinute, MinTimerSeconds)

\* start_session from the creation of the Timer to the release of the lock.
StartArm ==
    /\ pc_d = "start_arm"
    /\ lock = DeliveryThread
    /\ created < MaxTimers
    /\ created' = created + 1
    /\ timers' = [timers EXCEPT
                    ![created + 1] = NewTimer(duration_seconds(data.duration))]
    /\ active_session' = created + 1
    /\ lock' = NoHolder
    /\ pc_d' = "idle"
    /\ msg' = NoPayload
    /\ data' = NoData
    /\ UNCHANGED <<config, active_reference, gpio, escaped, main, backend, run>>

\* ----------------------------------------------------------- timer threads
\* Timer.run: finished.wait(interval) raises OverflowError for an interval
\* above threading.TIMEOUT_MAX; the thread ends, the callback is never called
\* and finished is never set.
TimerOverflow(t) ==
    /\ timers[t].phase = "waiting"
    /\ timers[t].interval = TooLong
    /\ timers' = [timers EXCEPT ![t].phase = "died"]
    /\ UNCHANGED <<config, lock, session, gpio, created, delivery, main, backend, run>>

\* Time passes: every timer in its wait has TickSeconds less to wait.
Tick ==
    /\ \E t \in TimerIds : timers[t].phase = "waiting" /\ timers[t].remaining > 0
    /\ timers' = [t \in TimerIds |->
                    IF timers[t].phase = "waiting" /\ timers[t].remaining > 0
                    THEN [timers[t] EXCEPT !.remaining = Max(@ - TickSeconds, 0)]
                    ELSE timers[t]]
    /\ UNCHANGED <<config, lock, session, gpio, created, delivery, main, backend, run>>

\* Timer.run: finished.wait(interval) timed out and finished is not set, so the
\* thread goes on to call _stop_session.
TimerExpire(t) ==
    /\ timers[t].phase = "waiting"
    /\ timers[t].remaining = 0
    /\ ~timers[t].finished
    /\ timers' = [timers EXCEPT ![t].phase = "calling"]
    /\ UNCHANGED <<config, lock, session, gpio, created, delivery, main, backend, run>>

\* _stop_session: `with self._lock`
StopAcquire(t) ==
    /\ timers[t].phase = "calling"
    /\ lock = NoHolder
    /\ lock' = t
    /\ timers' = [timers EXCEPT ![t].phase = "stopping"]
    /\ UNCHANGED <<config, session, gpio, created, delivery, main, backend, run>>

_stop_session_keeps_reference(t) ==
    /\ timers[t].phase = "stopping"
    /\ lock = t
    /\ pin' = _inactive_state
    /\ output_calls' = (output_calls + 1) % 2
    /\ active_session' = NoTimer
    /\ lock' = NoHolder
    /\ timers' = [timers EXCEPT ![t] = Ended("completed")]
    /\ UNCHANGED <<config, active_reference, released, created, delivery, main, backend, run>>

\* _stop_session under the lock (it acts whatever the timer's state), then Timer.run sets finished and ends.
_stop_session(t) ==
    /\ timers[t].phase = "stopping"
    /\ lock = t
    /\ Output(_inactive_state)
    /\ active_session' = NoTimer
    /\ active_reference' = <<>>
    /\ lock' = NoHolder
    /\ timers' = [timers EXCEPT ![t] = Ended("completed")]
    /\ UNCHANGED <<config, released, created, delivery, main, backend, run>>

\* ------------------------------------------------------------- main thread
\* cleanup: `with self._lock`
CleanupAcquire ==
    /\ pc_m = "idle"
    /\ cleanups < MaxCleanups
    /\ lock = NoHolder
    /\ lock' = MainThread
    /\ pc_m' = "cleanup_locked"
    /\ UNCHANGED <<config, session, gpio, timers, created, delivery, cleanups, backend, run>>

CleanupCancels_unguarded(sess) == TRUE

\* cleanup's test `if self._active_session`.
CleanupCancels(sess) == sess # NoTimer

\* cleanup under the lock: the cancel of a recorded timer, then _switch_off.
\* A cancel() on None raises AttributeError, which leaves the `with` block.
CleanupLocked ==
    /\ pc_m = "cleanup_locked"
    /\ lock = MainThread
    /\ lock' = NoHolder
    /\ IF CleanupCancels(active_session) /\ active_session = NoTimer
       THEN /\ pc_m' = "raised"
            /\ UNCHANGED <<timers, pin, output_calls>>
       ELSE /\ timers' = IF CleanupCancels(active_session)
                         THEN Cancel(timers, active_session) ELSE timers
            /\ Output(_inactive_state)
            /\ pc_m' = "gpio_cleanup"
    /\ UNCHANGED <<config, session, released, created, delivery, cleanups, backend, run>>

\* cleanup after the lock: GPIO.cleanup(), and the return.
GpioCleanup ==
    /\ pc_m = "gpio_cleanup"
    /\ released' = TRUE
    /\ cleanups' = cleanups + 1
    /\ pc_m' = "idle"
    /\ UNCHANGED <<config, lock, session, pin, output_calls, timers, created, delivery, backend, run>>

\* ----------------------------------------------------------- device process
\* The main thread of the device process, in main() and run_forever; loop_forever
\* calls _on_message on this thread.  device == the Controller and its threads.
device == <<allow_overlap, active_high, lock, active_session, active_reference, pin,
            output_calls, released, timers, created, pc_d, msg, data, escaped, pc_m,
            cleanups>>

\* run_forever, self._client.connect: it returns, or it raises (the broker
\* cannot be reached); main() catches KeyboardInterrupt only.
RunConnect(ok) ==
    /\ run = "connect"
    /\ run' = IF ok THEN "loop" ELSE "died"
    /\ UNCHANGED <<device, backend>>

\* KeyboardInterrupt in the main thread.  In self._client.connect, which is
\* outside the try of run_forever, it goes straight to main()'s handler; in
\* loop_forever it unwinds the callback (a `with self._lock` releases the lock)
\* and enters the finally block.
Interrupt ==
    /\ run \in {"connect", "loop"}
    /\ pc_d # "crashed"
    /\ run' = IF run = "connect" THEN "exited" ELSE "finally"
    /\ pc_d' = "idle"
    /\ msg' = NoPayload
    /\ data' = NoData
    /\ lock' = IF lock = DeliveryThread THEN NoHolder ELSE lock
    /\ UNCHANGED <<config, session, gpio, timers, created, escaped, main, backend>>

\* An exception that left _on_message leaves loop_forever too and enters the
\* finally block.
CrashUnwind ==
    /\ run = "loop"
    /\ pc_d = "crashed"
    /\ run' = "finally"
    /\ UNCHANGED <<device, backend>>

\* run_forever's finally block: the call of self._controller.cleanup().
FinallyCleanup ==
    /\ run = "finally"
    /\ cleanups = 0
    /\ CleanupAcquire

\* cleanup() has returned: run_forever and main() return (or the exception of
\* _on_message goes on).
RunReturn ==
    /\ run = "finally"
    /\ cleanups > 0
    /\ pc_m = "idle"
    /\ run' = IF pc_d = "crashed" THEN "died" ELSE "exited"
    /\ UNCHANGED <<device, backend>>

\* loop_forever hands a message to _on_message.
LoopDeliver(p) == run = "loop" /\ Deliver(p)

\* ----------------------------------------------------------------- backend
AlreadyConnected_never(state) == FALSE

\* self._client.is_connected(): true from the broker's CONNACK until the
\* connection ends.
AlreadyConnected(state) == state = "connected"

\* ChargePublisher.connect under its lock; ok: self._client.connect returns
\* (it raises when the broker cannot be reached).  loop_start starts no second
\* thread when one runs.
Connect(ok) ==
    /\ pc_b = "idle"
    /\ IF AlreadyConnected(client_state)
       THEN /\ pc_b' = "connect_noop"
            /\ UNCHANGED <<client_state, loop_thread, connect_calls, loop_starts>>
       ELSE /\ connect_calls < MaxConnects
            /\ connect_calls' = connect_calls + 1
            /\ IF ok
               THEN /\ client_state' = "connecting"
                    /\ loop_thread' = TRUE
                    /\ loop_starts' = IF loop_thread THEN loop_starts ELSE loop_starts + 1
                    /\ pc_b' = "connect_returned"
               ELSE /\ client_state' = IF client_state \in {"connecting", "lost"}
                                       THEN "lost" ELSE client_state
                    /\ pc_b' = "connect_raised"
                    /\ UNCHANGED <<loop_thread, loop_starts>>
    /\ UNCHANGED <<device, run, command, publish_calls, rc, acked, events>>

\* `with suppress(Exception)` around loop_stop() and disconnect().
Suppressed(fault) == TRUE

\* ChargePublisher.disconnect under its lock; fault: the call inside the
\* suppress block that raises, if any (a raise in loop_stop skips disconnect).
Disconnect(fault) ==
    /\ pc_b = "idle"
    /\ IF ~AlreadyConnected(client_state)
       THEN /\ pc_b' = "disconnect_noop"
            /\ UNCHANGED <<client_state, loop_thread>>
       ELSE /\ pc_b' = IF ~Suppressed(fault) THEN "disconnect_raised"
                       ELSE IF fault = "none" THEN "disconnect_returned"
                       ELSE "disconnect_suppressed"
            /\ loop_thread' = IF fault = "loop_stop" THEN loop_thread ELSE FALSE
            /\ client_state' = IF fault = "none" THEN "disconnected" ELSE client_state
    /\ UNCHANGED <<device, run, connect_calls, loop_starts, command, publish_calls, rc,
                   acked, events>>

\* loop_start makes the network loop thread a daemon thread: it does not keep
\* the interpreter from exiting.
LoopThreadIsDaemon == TRUE

\* connect() or disconnect() is over; its caller goes on.
LifecycleReturn ==
    /\ pc_b \in {"connect_noop", "connect_returned", "connect_raised", "disconnect_noop",
                 "disconnect_returned", "disconnect_suppressed", "disconnect_raised"}
    /\ pc_b' = "idle"
    /\ UNCHANGED <<device, run, client_state, loop_thread, connect_calls, loop_starts,
                   command, publish_calls, rc, acked, events>>

\* The network loop reads the broker's CONNACK.
Connack ==
    /\ client_state = "connecting"
    /\ loop_thread
    /\ client_state' = "connected"
    /\ UNCHANGED <<device, run, loop_thread, connect_calls, loop_starts, pc_b, command,
                   publish_calls, rc, acked, events>>

\* The connection to the broker ends.
ConnectionLost ==
    /\ client_state = "connected"
    /\ client_state' = "lost"
    /\ UNCHANGED <<device, run, loop_thread, connect_calls, loop_starts, pc_b, command,
                   publish_calls, rc, acked, events>>

\* The network loop connects again.
Reconnect ==
    /\ client_state = "lost"
    /\ loop_thread
    /\ client_state' = "connecting"
    /\ UNCHANGED <<device, run, loop_thread, connect_calls, loop_starts, pc_b, command,
                   publish_calls, rc, acked, events>>


\* razorpay_webhook, a payment_link.paid event: the ChargeCommand is built and
\* publish_charge is called.
WebhookEvent(c) ==
    /\ pc_b = "idle"
    /\ events < MaxEvents
    /\ events' = events + 1
    /\ command' = c
    /\ publish_calls' = 0
    /\ rc' = MQTT_ERR_SUCCESS
    /\ acked' = FALSE
    /\ pc_b' = "publish_charge"
    /\ UNCHANGED <<device, run, client_state, loop_thread, connect_calls, loop_starts>>

\* The result code of self._client.publish: no connection unless the client
\* has a socket; while the CONNACK is awaited the packet may be taken or not.
PublishResults(state) ==
    CASE state = "connected" -> {MQTT_ERR_SUCCESS}
      [] state = "connecting" -> {MQTT_ERR_SUCCESS, MQTT_ERR_NO_CONN}
      [] OTHER -> {MQTT_ERR_NO_CONN}

\* publish_charge up to the return of self._client.publish(topic, payload,
\* qos=1, retain=False): the message is handed to the client, the broker's
\* PUBACK is still to come.
Publish(r) ==
    /\ pc_b = "publish_charge"
    /\ r \in PublishResults(client_state)
    /\ publish_calls' = publish_calls + 1
    /\ rc' = r
    /\ pc_b' = "published"
    /\ UNCHANGED <<device, run, client_state, loop_thread, connect_calls, loop_starts,
                   command, acked, events>>

PublishFailed_never(r) == FALSE

\* publish_charge's test `if result.rc != mqtt.MQTT_ERR_SUCCESS`.
PublishFailed(r) == r # MQTT_ERR_SUCCESS

\* publish_charge after the publish: RuntimeError, or the return.
PublishCheck ==
    /\ pc_b = "published"
    /\ pc_b' = IF PublishFailed(rc) THEN "publish_raised" ELSE "publish_returned"
    /\ UNCHANGED <<device, run, client_state, loop_thread, connect_calls, loop_starts,
                   command, publish_calls, rc, acked, events>>

\* razorpay_webhook after publish_charge: HTTP 500 for an exception, else
\* the response {"received": true}.
WebhookRespond ==
    /\ pc_b \in {"publish_raised", "publish_returned"}
    /\ pc_b' = IF pc_b = "publish_raised" THEN "http_500" ELSE "received"
    /\ UNCHANGED <<device, run, client_state, loop_thread, connect_calls, loop_starts,
                   command, publish_calls, rc, acked, events>>

\* The response is sent; the handler is over.
WebhookDone ==
    /\ pc_b \in {"http_500", "received"}
    /\ pc_b' = "idle"
    /\ command' = NoCommand
    /\ publish_calls' = 0
    /\ rc' = MQTT_ERR_SUCCESS
    /\ acked' = FALSE
    /\ UNCHANGED <<device, run, client_state, loop_thread, connect_calls, loop_starts, events>>

\* The network loop reads the broker's PUBACK for the command's message.
Puback ==
    /\ command # NoCommand
    /\ publish_calls > 0
    /\ rc = MQTT_ERR_SUCCESS
    /\ ~acked
    /\ client_state = "connected"
    /\ loop_thread
    /\ acked' = TRUE
    /\ UNCHANGED <<device, run, client_state, loop_thread, connect_calls, loop_starts, pc_b,
                   command, publish_calls, rc, events>>

\* ---------------------------------------------------------- specification
Next ==
    \/ \E p \in Payloads : Deliver(p)
    \/ OnMessage
    \/ OnMessageReturn
    \/ StartAcquire
    \/ StartCheck
    \/ StartReturn
    \/ StartArm
    \/ Tick
    \/ \E t \in TimerIds : TimerOverflow(t)
    \/ \E t \in TimerIds : TimerExpire(t)
    \/ \E t \in TimerIds : StopAcquire(t)
    \/ \E t \in TimerIds : _stop_session(t)
    \/ CleanupAcquire
    \/ CleanupLocked
    \/ GpioCleanup

Spec == Init /\ [][Next]_vars

\* The device process: main() from the call of run_forever on.
ProcessInit == Constructed /\ Unconnected /\ run = "connect"

ProcessNext ==
    \/ \E ok \in BOOLEAN : RunConnect(ok)
    \/ Interrupt
    \/ CrashUnwind
    \/ FinallyCleanup
    \/ RunReturn
    \/ \E p \in Payloads : LoopDeliver(p)
    \/ OnMessage
    \/ OnMessageReturn
    \/ StartAcquire
    \/ StartCheck
    \/ StartReturn
    \/ StartArm
    \/ Tick
    \/ \E t \in TimerIds : TimerOverflow(t)
    \/ \E t \in TimerIds : TimerExpire(t)
    \/ \E t \in TimerIds : StopAcquire(t)
    \/ \E t \in TimerIds : _stop_session(t)
    \/ CleanupLocked
    \/ GpioCleanup

ProcessSpec == ProcessInit /\ [][ProcessNext]_vars

\* The backend: the Publisher, its callers and its client's network loop.
BackendNext ==
    \/ \E ok \in BOOLEAN : Connect(ok)
    \/ \E fault \in {"none", "loop_stop", "disconnect"} : Disconnect(fault)
    \/ LifecycleReturn
    \/ Connack
    \/ ConnectionLost
    \/ Reconnect
    \/ \E c \in Commands : WebhookEvent(c)
    \/ \E r \in {MQTT_ERR_SUCCESS, MQTT_ERR_NO_CONN} : Publish(r)
    \/ PublishCheck
    \/ WebhookRespond
    \/ WebhookDone
    \/ Puback

BackendSpec == Init /\ [][BackendNext]_vars

\* The thread that holds the lock runs its transition body to the end.
LockHolderStep ==
    \/ StartCheck
    \/ StartReturn
    \/ StartArm
    \/ CleanupLocked
    \/ \E t \in TimerIds : _stop_session(t)

\* Time passes, a timer whose wait is over goes on, the thread inside the lock
\* leaves it, and a timer thread waiting for the lock gets it once it is free
\* often enough (the lock is held across a transition body only).
FairSpec ==
    /\ Spec
    /\ WF_vars(Tick)
    /\ WF_vars(LockHolderStep)
    /\ WF_vars(\E t \in TimerIds : TimerExpire(t))
    /\ WF_vars(\E t \in TimerIds : TimerOverflow(t))
    /\ SF_vars(\E t \in TimerIds : StopAcquire(t))

\* The scheduler lets every thread that asks for the lock have it.
LockFairSpec ==
    /\ Spec
    /\ WF_vars(LockHolderStep)
    /\ SF_vars(StartAcquire)
    /\ SF_vars(\E t \in TimerIds : StopAcquire(t))

\* ----------------------------------------------------------------- claims
\* A timer that was armed and has neither fired nor been cancelled.
Armed(t) == timers[t].phase = "waiting" /\ ~timers[t].finished

\* A timer that was armed, has not been cancelled and whose callback has not
\* run to its end (it may have fired and be waiting for the lock, or its
\* thread may have ended without firing).
Pending(t) ==
    timers[t].phase \in {"waiting", "calling", "stopping", "died"} /\ ~timers[t].finished

\* The step in which timer t's callback _stop_session runs.
CallbackRuns(t) == timers[t].phase = "stopping" /\ timers'[t].phase = "completed"

\* C1: whenever no transition holds the lock, a timer handle is recorded iff
\* the relay is at its active level iff some armed timer has neither run its
\* callback nor been cancelled.
C1_SessionRelayTimerAgree ==
    lock = NoHolder =>
        /\ (active_session # NoTimer) <=> Energized
        /\ Energized <=> (\E t \in TimerIds : Pending(t))

\* C2: the callback of a timer that was cancelled while it was in flight
\* changes neither the relay level nor the recorded reference nor the
\* recorded timer handle.
C2_CancelledCallbackIsNoOp ==
    [][\A t \in TimerIds :
         (CallbackRuns(t) /\ timers[t].finished)
            => (pin' = pin /\ active_reference' = active_reference
                /\ active_session' = active_session)]_vars

\* C3: at most one armed timer has neither fired nor been cancelled.
C3_AtMostOneArmedTimer == Cardinality({t \in TimerIds : Armed(t)}) <= 1

\* C4: with allow_overlap false, the start_session that finds a session
\* recorded returns without changing the timers, the recorded session and
\* reference or the relay, and without a call of GPIO.output.
C4_RejectedStartChangesNothing ==
    [][/\ (pc_d = "start_locked" /\ pc_d' # pc_d /\ active_session # NoTimer
                /\ ~allow_overlap)
            => (pc_d' = "rejected" /\ UNCHANGED <<session, gpio, timers, created>>)
       /\ (pc_d = "rejected" /\ pc_d' # pc_d)
            => (pc_d' = "idle" /\ UNCHANGED <<session, gpio, timers, created>>)]_vars

\* C4's case: the request for pl_B has just been rejected while pl_A's
\* session, the only one ever started, is recorded, its timer still armed and
\* the relay still at the active level.
C4_Witness ==
    /\ ~allow_overlap
    /\ pc_d = "rejected"
    /\ data.reference = RefB
    /\ created = 1
    /\ active_session = 1
    /\ Armed(1)
    /\ active_reference = <<RefA>>
    /\ Energized

\* C5: with allow_overlap true, while a session is recorded and the relay is
\* energized, the callback of any timer other than the recorded one leaves
\* the relay energized and the recorded session and reference as they are.
C5_NoResidualTimerEndsRestartedSession ==
    [][\A t \in TimerIds :
         (CallbackRuns(t) /\ allow_overlap /\ active_session # NoTimer
            /\ active_session # t /\ Energized)
            => (Energized' /\ UNCHANGED session)]_vars

\* C6: an accepted start_session (duration_minutes > 0) leaves the relay at
\* the active level, the reference recorded and exactly one new timer armed
\* for duration_minutes * 60 seconds; an armed timer stays armed until it
\* fires or is cancelled, and it eventually fires and runs its callback unless
\* a later start_session or cleanup() cancels it; a callback that runs leaves
\* the relay at the inactive level and the reference and handle cleared.
C6_StartArmsTimerThatFires ==
    /\ [][(pc_d = "start_arm" /\ pc_d' = "idle")
            => /\ data.duration > 0
               /\ Energized'
               /\ active_reference' = <<data.reference>>
               /\ created' = created + 1
               /\ active_session' = created'
               /\ timers'[created'] = NewTimer(duration_seconds(data.duration))
               /\ \A t \in TimerIds \ {created'} : timers'[t] = timers[t]]_vars
    /\ [][\A t \in TimerIds :
            Armed(t) => timers'[t].phase \in {"waiting", "calling", "cancelled"}]_vars
    /\ [][\A t \in TimerIds :
            CallbackRuns(t)
               => (~Energized' /\ active_session' = NoTimer /\ active_reference' = <<>>)]_vars
    /\ \A t \in TimerIds : Armed(t) ~> (timers[t].phase \in {"completed", "cancelled"})

\* C7: when cleanup() leaves its locked section no timer is armed, the relay
\* is at the inactive level and neither a session nor a reference is recorded,
\* and when it returns the hardware is released.
C7_CleanupForcesIdle ==
    [][/\ (pc_m = "cleanup_locked" /\ pc_m' # pc_m)
            => /\ ~Energized'
               /\ active_session' = NoTimer
               /\ active_reference' = <<>>
               /\ \A t \in TimerIds : ~(timers'[t].phase = "waiting" /\ ~timers'[t].finished)
       /\ (pc_m = "gpio_cleanup" /\ pc_m' # pc_m) => released']_vars

\* C8: cleanup() never raises, in whatever state it is called (twice in a
\* row, with no session active): it leaves its locked section normally with
\* the relay at the inactive level, and when it returns with no session
\* started meanwhile the relay is at the inactive level.
C8_CleanupIdempotent ==
    /\ [](pc_m # "raised")
    /\ [][/\ (pc_m = "cleanup_locked" /\ pc_m' # pc_m)
               => (pc_m' = "gpio_cleanup" /\ ~Energized')
          /\ (pc_m = "gpio_cleanup" /\ pc_m' # pc_m /\ pc_d # "start_arm"
                /\ \A t \in TimerIds : ~Pending(t))
               => (pc_m' = "idle" /\ ~Energized')]_vars

\* C8's case: cleanup() has returned twice in a row with no session ever
\* started, and the relay is at the inactive level.
C8_Witness ==
    /\ cleanups = 2
    /\ created = 0
    /\ pc_d = "idle"
    /\ pc_m = "idle"
    /\ released
    /\ ~Energized

\* C9: no exception ever leaves the message-arrival callback.
C9_NoFaultEscapesCallback == escaped = "none" /\ pc_d # "crashed"

\* The message has a duration_minutes that is missing or a number <= 0.
NonPositiveDuration(m) ==
    /\ m.kind = "object"
    /\ \/ m.duration_minutes.t = "missing"
       \/ m.duration_minutes.t \in {"int", "float"} /\ m.duration_minutes.n <= 0

\* C10: a message whose duration_minutes is missing or <= 0 is dropped with a
\* ValueError and start_session is not called; every call of start_session
\* made by the Listener has duration_minutes >= 1, and every timer it arms
\* waits duration_minutes * 60 >= 60 seconds, never the 1 second floor.
C10_NoSessionWithNonPositiveDuration ==
    /\ [](pc_d \in {"start_session", "start_locked", "start_arm"} => data.duration >= 1)
    /\ [](\A t \in TimerIds :
            timers[t].phase \in {"waiting", "calling", "stopping", "died"}
                => /\ timers[t].interval # MinTimerSeconds
                   /\ timers[t].interval = TooLong \/ timers[t].interval >= SecondsPerMinute)
    /\ [][(pc_d = "on_message" /\ pc_d' # pc_d /\ NonPositiveDuration(msg))
            => (pc_d' = "dropped" /\ UNCHANGED <<data, session, gpio, timers, created>>)]_vars

\* C10's case: a message with duration_minutes 0 has been logged as malformed
\* and is being dropped, no session having been started for it, while the one
\* timer ever armed waits its 60 seconds.
C10_Witness ==
    /\ pc_d = "dropped"
    /\ msg = Object(JStr(StartCharge), JInt(0), JStr(RefA))
    /\ created = 1
    /\ Armed(1)
    /\ timers[1].interval = SecondsPerMinute

C12_RoundTrip ==
    \A c \in Commands :
        msg = to_payload(c) =>
            /\ pc_d \notin {"dropped", "crashed"}
            /\ pc_d = "start_session" =>
                    /\ data.duration = c.duration_minutes
                    /\ data.reference = c.payment_reference
                    /\ "device_id" \in DOMAIN data
                    /\ data.device_id = c.device_id

\* C13: a call of publish_charge makes exactly one call of the client's
\* publish; when its result code is not success the call raises without a
\* second publish, and the webhook handler then answers HTTP 500, never
\* {"received": true}.
C13_OnePublishNoRetry ==
    /\ [][/\ (pc_b = "publish_charge" /\ pc_b' # pc_b)
               => (pc_b' = "published" /\ publish_calls = 0 /\ publish_calls' = 1)
          /\ (pc_b = "published" /\ pc_b' # pc_b /\ rc # MQTT_ERR_SUCCESS)
               => (pc_b' = "publish_raised" /\ publish_calls' = 1)
          /\ (pc_b = "publish_raised" /\ pc_b' # pc_b)
               => (pc_b' = "http_500" /\ publish_calls' = 1)
          /\ (pc_b = "http_500" /\ pc_b' # pc_b) => pc_b' = "idle"]_vars
    /\ [](pc_b \in {"published", "publish_raised", "publish_returned", "http_500", "received"}
            => publish_calls = 1)
    /\ [](pc_b = "received" => rc = MQTT_ERR_SUCCESS)

\* C13's case: the publish of (bay-1, 30 minutes, pl_123) was rejected for
\* want of a connection, was made once, and the handler answers HTTP 500.
C13_Witness ==
    /\ pc_b = "http_500"
    /\ command = ChargeCommand(Bay1, 30, Ref123)
    /\ rc = MQTT_ERR_NO_CONN
    /\ publish_calls = 1

\* C14: whenever publish_charge has returned without an exception, the
\* broker has acknowledged the command's message.
C14_SuccessMeansAcknowledged == pc_b \in {"publish_returned", "received"} => acked

\* The position of the caller right after a call of connect() / disconnect().
AfterConnect == {"connect_noop", "connect_returned", "connect_raised"}
AfterDisconnect ==
    {"disconnect_noop", "disconnect_returned", "disconnect_suppressed", "disconnect_raised"}

C16_CleanupBeforeExit == run = "exited" => (cleanups > 0 /\ released /\ ~Energized)

\* C17: the step of _on_message in which _parse_payload returns goes on to
\* one call of start_session with exactly the decoded duration and reference,
\* which runs to its end within the callback; from no recorded session it
\* energizes the relay, records the reference and arms one timer for
\* duration_minutes * 60 seconds; that timer goes on to its callback only
\* when its seconds have elapsed, can always go on, and its callback leaves
\* the relay at the inactive level with nothing recorded.
C17_DecodedCommandStartsSession ==
    /\ [][/\ (pc_d = "on_message" /\ pc_d' # pc_d /\ _parse_payload(msg).exc = "none")
               => /\ pc_d' = "start_session"
                  /\ data' = [duration |-> _parse_payload(msg).duration,
                              reference |-> _parse_payload(msg).reference]
                  /\ UNCHANGED <<lock, session, gpio, timers, created>>
          /\ (pc_d = "start_session" /\ pc_d' # pc_d)
               => /\ pc_d' = "start_locked"
                  /\ lock' = DeliveryThread
                  /\ UNCHANGED <<data, session, gpio, timers, created>>
          /\ (pc_d = "start_locked" /\ pc_d' # pc_d /\ active_session = NoTimer)
               => /\ pc_d' = "start_arm"
                  /\ Energized'
                  /\ active_reference' = <<data.reference>>
                  /\ UNCHANGED <<data, timers, created>>
          /\ (pc_d = "start_arm" /\ pc_d' # pc_d /\ data.duration <= TimeoutMaxMinutes)
               => /\ pc_d' = "idle"
                  /\ lock' = NoHolder
                  /\ created' = created + 1
                  /\ active_session' = created'
                  /\ timers'[created'] = NewTimer(data.duration * SecondsPerMinute)
                  /\ UNCHANGED <<active_reference, gpio>>
          /\ \A t \in TimerIds :
                (timers[t].phase = "waiting" /\ timers'[t].phase = "calling")
                    => (timers[t].remaining = 0 /\ ~timers[t].finished)
          /\ \A t \in TimerIds :
                CallbackRuns(t)
                    => (~Energized' /\ active_session' = NoTimer /\ active_reference' = <<>>)]_vars
    /\ [](\A t \in TimerIds :
            (Armed(t) /\ timers[t].interval # TooLong) => ENABLED (Tick \/ TimerExpire(t)))

\* C17's case: the published command (bay-1, 30 minutes, pl_123) arrived with
\* no session recorded; pl_123 is recorded, the relay is at the active level,
\* and the one timer, armed for 1800 seconds, has waited them out and is on
\* its way to the callback.
C17_Witness ==
    /\ created = 1
    /\ cleanups = 0
    /\ pc_d = "idle"
    /\ active_session = 1
    /\ active_reference = <<Ref123>>
    /\ Energized
    /\ timers[1].phase = "stopping"
    /\ timers[1].interval = 1800
    /\ timers[1].remaining = 0

\* C18: every step that takes the relay from the inactive to the active
\* level is the step of a start_session that the overlap policy did not
\* reject; the timer callback, cleanup(), a rejected start_session and a
\* dropped message never do.
C18_OnlyAcceptedStartEnergizes ==
    [][(~Energized /\ Energized')
          => /\ pc_d = "start_locked"
             /\ pc_d' = "start_arm"
             /\ lock = DeliveryThread
             /\ ~(active_session # NoTimer /\ ~allow_overlap)]_vars

\* C18's case: a start_session has just energized the relay, after a
\* cleanup() and a timer callback had both switched it off.
C18_Witness ==
    /\ pc_d = "start_arm"
    /\ Energized
    /\ cleanups > 0
    /\ \E t \in TimerIds : timers[t].phase = "completed"

\* C19: the lock is held only by a thread inside a transition body, that
\* thread can always take its next step, and the steps of a body end with the
\* release; a free lock can be taken by whoever asks for it; and, the
\* scheduler being fair, every start_session and every timer callback that
\* asks for the lock gets it and runs to its end.
C19_NoDeadlock ==
    /\ [](/\ lock = DeliveryThread <=> pc_d \in {"start_locked", "rejected", "start_arm"}
          /\ lock = MainThread <=> pc_m = "cleanup_locked"
          /\ \A t \in TimerIds : lock = t <=> timers[t].phase = "stopping"
          /\ lock # NoHolder => ENABLED LockHolderStep
          /\ (lock = NoHolder /\ pc_d = "start_session") => ENABLED StartAcquire
          /\ \A t \in TimerIds :
                (lock = NoHolder /\ timers[t].phase = "calling") => ENABLED StopAcquire(t))
    /\ (pc_d = "start_session") ~> (pc_d = "idle")
    /\ \A t \in TimerIds : (timers[t].phase = "calling") ~> (timers[t].phase = "completed")

\* C19's case: all three kinds of thread contend: cleanup() holds the lock
\* while start_session and a fired timer's callback both wait for it.
C19_Witness ==
    /\ lock = MainThread
    /\ pc_m = "cleanup_locked"
    /\ pc_d = "start_session"
    /\ \E t \in TimerIds : timers[t].phase = "calling"

\* C20: once GPIO.cleanup() has been called, neither the callback of a timer
\* nor a start_session makes a call of GPIO.output.
C20_NoOutputAfterRelease ==
    [][(released /\ (pc_d' # pc_d \/ \E t \in TimerIds : CallbackRuns(t)))
          => UNCHANGED <<pin, output_calls>>]_vars

\* C21: whenever no thread holds the Controller lock, a reference is recorded
\* if and only if a timer handle is recorded.
C21_ReferenceAndHandleTogether ==
    lock = NoHolder => (active_reference # <<>> <=> active_session # NoTimer)

\* C21's case: after a cleanup(), a timer callback and a further
\* start_session, the lock is free and pl_123 and its armed timer are both
\* recorded.
C21_Witness ==
    /\ lock = NoHolder
    /\ pc_d = "idle"
    /\ cleanups > 0
    /\ \E t \in TimerIds : timers[t].phase = "completed"
    /\ active_reference = <<Ref123>>
    /\ active_session # NoTimer
    /\ Armed(active_session)

====
